---- MODULE Spec2Model ----
(***************************************************************************)
(* Model of LED_INA226_Tester.ino: a proportional current controller that  *)
(* reads a target current from the serial port, measures the load current  *)
(* with an INA226 and steps a 10-bit DAC towards the target, with an       *)
(* overcurrent shutdown.                                                    *)
(*                                                                         *)
(* Currents are floats in the sketch.  The model keeps them as integers in *)
(* units of 1/Scale mA (half milliamps).  Every value on that grid below   *)
(* 2^23 is exactly representable as a 32-bit float, so sums, differences   *)
(* and comparisons of the modelled values are exact in the sketch too.     *)
(***************************************************************************)
EXTENDS Integers, Sequences, FiniteSets, TLC

(* ---------------- program constants ---------------- *)

Scale == 2                      \* model units per mA

DAC_MIN == 0
DAC_MAX == 1023
CONTROL_INTERVAL == 100         \* 1000 / CONTROL_RATE, in ms
MAX_CURRENT_MA == 1400 * Scale
KpInverse == 10                 \* Kp = 0.1
MIN_ADJUSTMENT == 1
HeaderEvery == 10               \* lineCount % 10
Word == 65536                   \* unsigned long is 32 bits: two 16-bit words
INA226_ERR_NONE == 0
INA226_ERR_SHUNTVOLTAGE_HIGH == 32768

(* ---------------- bounds of the model ---------------- *)

ClockStep == 50                 \* ms by which the clock advances per step
MaxNow == 400                   \* the clock stops advancing at this uptime
TelemetryClockStep == 100       \* the same two bounds for SpecTelemetry,
TelemetryMaxNow == 2200         \* which runs for 22 control ticks
ConvergeMaxNow == 12000         \* and the uptime bound for SpecConverge
ClockFineStep == 1              \* SpecClock: the clock advances by 1 ms
ClockCoarseStep == 99           \* or by 99 ms,
ClockMaxNow == 250              \* for 250 ms,
ClockStartsBeforeWrap == 120    \* starting 120 ms before millis() wraps
WindupMaxNow == 103000          \* the uptime bound for SpecWindup: 1030 ticks

(* ---------------- inputs ---------------- *)

NoInput == <<"<none>">>         \* no line was read in the last iteration
NoReading == -1000000           \* no measurement was taken in the last tick

\* Lines that can arrive on the serial port, as sequences of characters.
Lines ==
    { <<"0">>,
      <<"2", "0", "0">>,
      <<"5", "0", "0">>,
      <<" ", "1", "0", "0", " ">>,
      <<"9", ".", "5">>,
      <<"1", "4", "0", "0">>,
      <<"1", "4", "0", "0", ".", "5">>,
      <<"-", "0", ".", "5">>,
      <<"a", "b", "c">>,
      <<"5", "x">> }

\* Values INA.getCurrent_mA() can return, in model units:
\* -3000, 0, 99.5, 300, 519, 1400, 1400.5 and 1450 mA.
Readings == { -6000, 0, 199, 600, 1038, 2800, 2801, 2900 }

\* Results of INA.setMaxCurrentShunt().
CalResults == { INA226_ERR_NONE, INA226_ERR_SHUNTVOLTAGE_HIGH }

VARIABLES
    pc,                 \* "setup", "halted", "cmd" (loop, serial part), "ctrl" (loop, control part)
    targetCurrent_mA,
    currentDacValue,
    lastControlTime,
    headerPrinted,
    lineCount,
    now,                \* the value millis() returns
    dacOut,             \* the value last written to DAC_PIN (0 at power-on)
    beginOk,            \* what INA.begin() returned ("unset" before setup)
    calResult,          \* what INA.setMaxCurrentShunt() returned (-1 if not called)
    input,              \* the trimmed line, if the last step read one
    currentCurrent,     \* the measurement, if the last step took one
    targetBefore,       \* targetCurrent_mA when the last step began
    dacBefore,          \* currentDacValue when the last step began
    wrote,              \* the last step called analogWrite
    branch,             \* the branch the last step took
    serialOut,          \* what the last step printed
    cadence,            \* the header and data lines printed so far (see Init)
    plant,              \* the load: 0, or the gain of a simulated sensor
    timing              \* the time elapsed since Init and since the last tick

vars == << pc, targetCurrent_mA, currentDacValue, lastControlTime, headerPrinted,
           lineCount, now, dacOut, beginOk, calResult, input, currentCurrent,
           targetBefore, dacBefore, wrote, branch, serialOut, cadence,
           plant, timing >>

(* ---------------- pure functions ---------------- *)

Abs(x) == IF x < 0 THEN -x ELSE x

\* unsigned long values, kept as a high and a low 16-bit word so that the
\* arithmetic is modulo 2^32 exactly.
U32(n) == [ hi |-> (n \div Word) % Word, lo |-> n % Word ]

\* a + n modulo 2^32, for 0 <= n < 2^16
U32Add(a, n) ==
    LET lo == a.lo + n IN
        [ hi |-> (a.hi + lo \div Word) % Word, lo |-> lo % Word ]

\* a - b modulo 2^32
U32Sub(a, b) ==
    LET lo     == a.lo - b.lo
        borrow == IF lo < 0 THEN 1 ELSE 0
    IN  [ hi |-> (a.hi - b.hi - borrow) % Word, lo |-> lo % Word ]

\* a >= n, for 0 <= n < 2^16
U32AtLeast(a, n) == a.hi > 0 \/ a.lo >= n

\* C conversion of a quotient to int: the fraction is dropped, towards zero.
TruncDiv(a, b) == IF a >= 0 THEN a \div b ELSE -((-a) \div b)

RECURSIVE Pow10(_)
Pow10(n) == IF n = 0 THEN 1 ELSE 10 * Pow10(n - 1)

IsSpace(c) == c \in { " ", "\t", "\r", "\n" }

IsDigit(c) == c \in { "0", "1", "2", "3", "4", "5", "6", "7", "8", "9" }

DigitVal(c) ==
    CASE c = "0" -> 0 [] c = "1" -> 1 [] c = "2" -> 2 [] c = "3" -> 3
      [] c = "4" -> 4 [] c = "5" -> 5 [] c = "6" -> 6 [] c = "7" -> 7
      [] c = "8" -> 8 [] c = "9" -> 9

RECURSIVE SkipSpaces(_)
SkipSpaces(s) ==
    IF s # <<>> /\ IsSpace(Head(s)) THEN SkipSpaces(Tail(s)) ELSE s

RECURSIVE DropTrailingSpaces(_)
DropTrailingSpaces(s) ==
    IF s # <<>> /\ IsSpace(s[Len(s)])
    THEN DropTrailingSpaces(SubSeq(s, 1, Len(s) - 1))
    ELSE s

\* String::trim(): strips white space at both ends.
Trim(s) == DropTrailingSpaces(SkipSpaces(s))

RECURSIVE LeadingDigits(_)
LeadingDigits(s) ==
    IF s # <<>> /\ IsDigit(Head(s))
    THEN <<Head(s)>> \o LeadingDigits(Tail(s))
    ELSE <<>>

RECURSIVE DecimalValue(_)
DecimalValue(ds) ==
    IF ds = <<>> THEN 0
    ELSE 10 * DecimalValue(SubSeq(ds, 1, Len(ds) - 1)) + DigitVal(ds[Len(ds)])

\* String::toFloat(), which is atof(): optional white space, optional sign,
\* digits with an optional decimal point; conversion stops at the first
\* character that does not fit, and a line with no number at all yields 0.
\* The result is in model units; it is exact for the values on the grid.
ToFloat(s) ==
    LET body      == SkipSpaces(s)
        signed    == body # <<>> /\ Head(body) \in { "+", "-" }
        negative  == body # <<>> /\ Head(body) = "-"
        rest      == IF signed THEN Tail(body) ELSE body
        intPart   == LeadingDigits(rest)
        afterInt  == SubSeq(rest, Len(intPart) + 1, Len(rest))
        hasPoint  == afterInt # <<>> /\ Head(afterInt) = "."
        fracPart  == IF hasPoint THEN LeadingDigits(Tail(afterInt)) ELSE <<>>
        magnitude == (DecimalValue(intPart \o fracPart) * Scale) \div Pow10(Len(fracPart))
    IN  IF negative THEN -magnitude ELSE magnitude

\* The whole line is a decimal number (what the spec calls numeric input).
IsNumeric(s) ==
    LET signed   == s # <<>> /\ Head(s) \in { "+", "-" }
        rest     == IF signed THEN Tail(s) ELSE s
        intPart  == LeadingDigits(rest)
        afterInt == SubSeq(rest, Len(intPart) + 1, Len(rest))
        hasPoint == afterInt # <<>> /\ Head(afterInt) = "."
        fracPart == IF hasPoint THEN LeadingDigits(Tail(afterInt)) ELSE <<>>
        used     == Len(intPart) + (IF hasPoint THEN 1 + Len(fracPart) ELSE 0)
    IN  /\ Len(intPart) + Len(fracPart) > 0
        /\ used = Len(rest)

\* Variant: the lower bound is not checked.
ValidTargetNoLowerBound(newTarget) == newTarget <= MAX_CURRENT_MA

\* Variant: the upper bound is exclusive.
ValidTargetExclusive(newTarget) == newTarget >= 0 /\ newTarget < MAX_CURRENT_MA

\* newTarget >= 0 && newTarget <= MAX_CURRENT_MA
ValidTarget(newTarget) == newTarget >= 0 /\ newTarget <= MAX_CURRENT_MA

\* Variant: the limit of the start-up banner (0-1500) instead of MAX_CURRENT_MA.
OverCurrentBannerLimit(reading) == reading > 1500 * Scale

\* currentCurrent > MAX_CURRENT_MA
OverCurrent(reading) == reading > MAX_CURRENT_MA

\* Variant: the control part also regulates with no target set.
RegulatingAtZero(target) == target >= 0

\* targetCurrent_mA > 0
Regulating(target) == target > 0

\* Variant: the product is rounded to the nearest integer, halves away from 0.
AdjustmentRounded(error) ==
    TruncDiv(2 * error + (IF error >= 0 THEN 1 ELSE -1) * Scale * KpInverse,
             2 * Scale * KpInverse)

\* Variant: the product is floored instead of truncated.
AdjustmentFloored(error) == error \div (Scale * KpInverse)

\* (int)(error * Kp), with the error in model units
Adjustment(error) == TruncDiv(error, Scale * KpInverse)

\* Variant: the threshold is exclusive, a step of 1 is not applied.
ShouldAdjustExclusive(adjustment) == Abs(adjustment) > MIN_ADJUSTMENT

\* Variant: no dead-band, every tick writes the DAC.
ShouldAdjustAlways(adjustment) == TRUE

\* abs(adjustment) >= MIN_ADJUSTMENT
ShouldAdjust(adjustment) == Abs(adjustment) >= MIN_ADJUSTMENT

\* Variant: the upper limit itself is never reached.
ConstrainBelowHigh(amt, low, high) ==
    IF amt < low THEN low ELSE IF amt >= high THEN high - 1 ELSE amt

\* Variant: only the lower limit is enforced.
ConstrainLowOnly(amt, low, high) == IF amt < low THEN low ELSE amt

\* constrain(amt, low, high)
Constrain(amt, low, high) ==
    IF amt < low THEN low ELSE IF amt > high THEN high ELSE amt

\* Variant: the deadline lastControlTime + CONTROL_INTERVAL is computed (and
\* wraps) first, and the clock is compared with it.
IntervalElapsedDeadline(t, last) ==
    LET deadline == U32Add(last, CONTROL_INTERVAL)
    IN  t.hi > deadline.hi \/ (t.hi = deadline.hi /\ t.lo >= deadline.lo)

\* millis() - lastControlTime >= CONTROL_INTERVAL, in unsigned long arithmetic
IntervalElapsed(t, last) == U32AtLeast(U32Sub(t, last), CONTROL_INTERVAL)

\* Variant: the counter is tested as if it had already been incremented.
HeaderDueAfterIncrement(printed, count) == ~printed \/ (count + 1) % HeaderEvery = 0

\* !headerPrinted || lineCount % 10 == 0
HeaderDue(printed, count) == ~printed \/ count % HeaderEvery = 0

(* ---------------- the steps of setup() and loop() ---------------- *)

\* Variant: the result of the calibration is not checked.
SetupOutcomeUncheckedCalibration(began, result) ==
    IF ~began THEN "begin_failed" ELSE "ready"

\* setup(): where it ends, given what the sensor calls returned.
SetupOutcome(began, result) ==
    IF ~began THEN "begin_failed"
    ELSE IF result # INA226_ERR_NONE THEN "cal_failed"
    ELSE "ready"

\* Variant: a target of 0 is stored, the DAC is left for the next tick.
HandleCommandDeferredOff(newTarget, target, dac, out) ==
    IF ValidTarget(newTarget)
    THEN [ target |-> newTarget, dac |-> dac, out |-> out, wrote |-> FALSE,
           branch |-> IF newTarget = 0 THEN "off" ELSE "set",
           printed |-> IF newTarget = 0 THEN << "LED turned off" >>
                       ELSE << "Target current set to" >> ]
    ELSE [ target |-> target, dac |-> dac, out |-> out, wrote |-> FALSE,
           branch |-> "invalid", printed |-> << "Invalid current value" >> ]

\* Variant: every accepted target restarts the DAC from 0.
HandleCommandRestart(newTarget, target, dac, out) ==
    IF ValidTarget(newTarget)
    THEN [ target |-> newTarget, dac |-> 0, out |-> 0, wrote |-> TRUE,
           branch |-> IF newTarget = 0 THEN "off" ELSE "set",
           printed |-> IF newTarget = 0 THEN << "LED turned off" >>
                       ELSE << "Target current set to" >> ]
    ELSE [ target |-> target, dac |-> dac, out |-> out, wrote |-> FALSE,
           branch |-> "invalid", printed |-> << "Invalid current value" >> ]

\* loop(), serial part: the effect of a parsed line on the controller.
HandleCommand(newTarget, target, dac, out) ==
    IF ValidTarget(newTarget)
    THEN IF newTarget = 0
         THEN [ target |-> newTarget, dac |-> 0, out |-> 0, wrote |-> TRUE,
                branch |-> "off", printed |-> << "LED turned off" >> ]
         ELSE [ target |-> newTarget, dac |-> dac, out |-> out, wrote |-> FALSE,
                branch |-> "set", printed |-> << "Target current set to" >> ]
    ELSE [ target |-> target, dac |-> dac, out |-> out, wrote |-> FALSE,
           branch |-> "invalid", printed |-> << "Invalid current value" >> ]

\* Variant: the safety shutdown clears the target and leaves the DAC alone.
ControlStepTripKeepsDac(reading, target, dac, out) ==
    IF OverCurrent(reading)
    THEN [ target |-> 0, dac |-> dac, out |-> out, wrote |-> FALSE,
           branch |-> "shutdown", report |-> FALSE ]
    ELSE LET error      == target - reading
             adjustment == Adjustment(error)
             stepped    == Constrain(dac + adjustment, DAC_MIN, DAC_MAX)
         IN  IF ShouldAdjust(adjustment)
             THEN [ target |-> target, dac |-> stepped, out |-> stepped,
                    wrote |-> TRUE, branch |-> "adjust", report |-> TRUE ]
             ELSE [ target |-> target, dac |-> dac, out |-> out,
                    wrote |-> FALSE, branch |-> "deadband", report |-> TRUE ]

\* Variant: the DAC is written before the new value is constrained.
ControlStepWriteBeforeConstrain(reading, target, dac, out) ==
    IF OverCurrent(reading)
    THEN [ target |-> 0, dac |-> 0, out |-> 0, wrote |-> TRUE,
           branch |-> "shutdown", report |-> FALSE ]
    ELSE LET error      == target - reading
             adjustment == Adjustment(error)
             stepped    == Constrain(dac + adjustment, DAC_MIN, DAC_MAX)
         IN  IF ShouldAdjust(adjustment)
             THEN [ target |-> target, dac |-> stepped, out |-> dac + adjustment,
                    wrote |-> TRUE, branch |-> "adjust", report |-> TRUE ]
             ELSE [ target |-> target, dac |-> dac, out |-> out,
                    wrote |-> FALSE, branch |-> "deadband", report |-> TRUE ]

\* loop(), control part with targetCurrent_mA > 0: safety check and
\* proportional step for one measurement.
ControlStep(reading, target, dac, out) ==
    IF OverCurrent(reading)
    THEN [ target |-> 0, dac |-> 0, out |-> 0, wrote |-> TRUE,
           branch |-> "shutdown", report |-> FALSE ]
    ELSE LET error      == target - reading
             adjustment == Adjustment(error)
             stepped    == Constrain(dac + adjustment, DAC_MIN, DAC_MAX)
         IN  IF ShouldAdjust(adjustment)
             THEN [ target |-> target, dac |-> stepped, out |-> stepped,
                    wrote |-> TRUE, branch |-> "adjust", report |-> TRUE ]
             ELSE [ target |-> target, dac |-> dac, out |-> out,
                    wrote |-> FALSE, branch |-> "deadband", report |-> TRUE ]

Init ==
    /\ pc = "setup"
    /\ targetCurrent_mA = 0
    /\ currentDacValue = 0
    /\ lastControlTime = U32(0)
    /\ headerPrinted = FALSE
    /\ lineCount = 0
    /\ now = U32(0)
    /\ dacOut = 0
    /\ beginOk = "not called"
    /\ calResult = -1
    /\ input = NoInput
    /\ currentCurrent = NoReading
    /\ targetBefore = 0
    /\ dacBefore = 0
    /\ wrote = FALSE
    /\ branch = "init"
    /\ serialOut = <<>>
    /\ cadence = [ headers     |-> 0,     \* header lines printed
                   sinceHeader |-> 0,     \* data lines since the last header
                   gap         |-> 0 ]    \* data lines before the last header,
                                          \* counted from the header before it
    /\ plant = 0
    /\ timing = [ uptime    |-> 0,       \* ms elapsed since Init
                  sinceTick |-> 0 ]      \* ms elapsed since lastControlTime was set

\* The millisecond clock advances by step, as long as the time elapsed since
\* Init is below max.
MillisUpTo(step, max) ==
    /\ timing.uptime + step <= max
    /\ now' = U32Add(now, step)
    /\ timing' = [ uptime |-> timing.uptime + step,
                   sinceTick |-> timing.sinceTick + step ]
    /\ UNCHANGED << pc, targetCurrent_mA, currentDacValue, lastControlTime,
                    headerPrinted, lineCount, dacOut, beginOk, calResult, input,
                    currentCurrent, targetBefore, dacBefore, wrote, branch,
                    serialOut, cadence,
                    plant >>

\* The millisecond clock advances.
Millis == MillisUpTo(ClockStep, MaxNow)

\* setup()
Setup ==
    /\ pc = "setup"
    /\ \E began \in BOOLEAN, result \in CalResults :
         LET outcome == SetupOutcome(began, result) IN
           /\ beginOk' = IF began THEN "true" ELSE "false"
           /\ calResult' = IF began THEN result ELSE -1
           /\ branch' = outcome
           /\ pc' = IF outcome = "ready" THEN "cmd" ELSE "halted"
           /\ serialOut' =
                CASE outcome = "begin_failed" -> << "banner", "Could not connect to INA226" >>
                  [] outcome = "cal_failed"   -> << "banner", "Calibration failed" >>
                  [] OTHER                    -> << "banner", "System ready!" >>
    /\ UNCHANGED << targetCurrent_mA, currentDacValue, lastControlTime, headerPrinted,
                    lineCount, now, dacOut, input, currentCurrent, targetBefore,
                    dacBefore, wrote, cadence,
                    plant, timing >>

\* while (1); after a failed start
Halted ==
    /\ pc = "halted"
    /\ UNCHANGED vars

\* loop(), lines 85-114, when no line is waiting on the serial port
NoCommand ==
    /\ pc = "cmd"
    /\ pc' = "ctrl"
    /\ targetBefore' = targetCurrent_mA
    /\ dacBefore' = currentDacValue
    /\ input' = NoInput
    /\ wrote' = FALSE
    /\ branch' = "no_serial"
    /\ serialOut' = <<>>
    /\ currentCurrent' = NoReading
    /\ UNCHANGED << targetCurrent_mA, currentDacValue, lastControlTime, headerPrinted,
                    lineCount, now, dacOut, beginOk, calResult, cadence,
                    plant, timing >>

\* loop(), lines 85-114, when one of the given lines is waiting on the serial port
CommandFrom(lines) ==
    /\ pc = "cmd"
    /\ \E line \in lines :
         LET trimmed == Trim(line)
             r       == HandleCommand(ToFloat(trimmed), targetCurrent_mA,
                                      currentDacValue, dacOut)
         IN  /\ input' = trimmed
             /\ targetCurrent_mA' = r.target
             /\ currentDacValue' = r.dac
             /\ dacOut' = r.out
             /\ wrote' = r.wrote
             /\ branch' = r.branch
             /\ serialOut' = r.printed
    /\ pc' = "ctrl"
    /\ targetBefore' = targetCurrent_mA
    /\ dacBefore' = currentDacValue
    /\ currentCurrent' = NoReading
    /\ UNCHANGED << lastControlTime, headerPrinted, lineCount, now, beginOk,
                    calResult, cadence,
                    plant, timing >>

\* loop(), lines 85-114, when a line is waiting on the serial port
Command == CommandFrom(Lines)

\* loop(), lines 117-170, when the control interval has not elapsed
NoTick ==
    /\ pc = "ctrl"
    /\ ~IntervalElapsed(now, lastControlTime)
    /\ pc' = "cmd"
    /\ targetBefore' = targetCurrent_mA
    /\ dacBefore' = currentDacValue
    /\ currentCurrent' = NoReading
    /\ wrote' = FALSE
    /\ branch' = "wait"
    /\ serialOut' = <<>>
    /\ input' = NoInput
    /\ UNCHANGED << targetCurrent_mA, currentDacValue, lastControlTime, headerPrinted,
                    lineCount, now, dacOut, beginOk, calResult, cadence,
                    plant, timing >>

\* loop(), lines 117-170, a control tick with no target set
IdleTick ==
    /\ pc = "ctrl"
    /\ IntervalElapsed(now, lastControlTime)
    /\ ~Regulating(targetCurrent_mA)
    /\ lastControlTime' = now
    /\ timing' = [ timing EXCEPT !.sinceTick = 0 ]
    /\ pc' = "cmd"
    /\ targetBefore' = targetCurrent_mA
    /\ dacBefore' = currentDacValue
    /\ currentCurrent' = NoReading
    /\ wrote' = FALSE
    /\ branch' = "idle"
    /\ serialOut' = <<>>
    /\ input' = NoInput
    /\ UNCHANGED << targetCurrent_mA, currentDacValue, headerPrinted, lineCount,
                    now, dacOut, beginOk, calResult, cadence,
                    plant >>

\* The lines printed so far, after a tick that printed a data line,
\* preceded by a header line if withHeader.
Printed(c, withHeader) ==
    IF withHeader
    THEN [ headers |-> c.headers + 1, sinceHeader |-> 1, gap |-> c.sinceHeader ]
    ELSE [ c EXCEPT !.sinceHeader = c.sinceHeader + 1 ]

\* loop(), lines 117-170, a control tick with a target set; readings is the
\* set of values INA.getCurrent_mA() can return in this tick.
ControlTickWith(readings) ==
    /\ pc = "ctrl"
    /\ IntervalElapsed(now, lastControlTime)
    /\ Regulating(targetCurrent_mA)
    /\ lastControlTime' = now
    /\ timing' = [ timing EXCEPT !.sinceTick = 0 ]
    /\ pc' = "cmd"
    /\ targetBefore' = targetCurrent_mA
    /\ dacBefore' = currentDacValue
    /\ \E reading \in readings :
         LET r == ControlStep(reading, targetCurrent_mA, currentDacValue, dacOut) IN
           /\ currentCurrent' = reading
           /\ targetCurrent_mA' = r.target
           /\ currentDacValue' = r.dac
           /\ dacOut' = r.out
           /\ wrote' = r.wrote
           /\ branch' = r.branch
           /\ IF r.report
              THEN /\ serialOut' = IF HeaderDue(headerPrinted, lineCount)
                                   THEN << "header", "data" >>
                                   ELSE << "data" >>
                   /\ headerPrinted' = (headerPrinted \/ HeaderDue(headerPrinted, lineCount))
                   /\ lineCount' = lineCount + 1
                   /\ cadence' = Printed(cadence, HeaderDue(headerPrinted, lineCount))
              ELSE /\ serialOut' = << "SAFETY SHUTDOWN" >>
                   /\ UNCHANGED << headerPrinted, lineCount, cadence >>
    /\ input' = NoInput
    /\ UNCHANGED << now, beginOk, calResult, plant >>

\* loop(), lines 117-170, a control tick with a target set
ControlTick == ControlTickWith(Readings)

Next ==
    \/ Millis
    \/ Setup
    \/ Halted
    \/ NoCommand
    \/ Command
    \/ NoTick
    \/ IdleTick
    \/ ControlTick

Spec == Init /\ [][Next]_vars

(* ---------------- a long run, for the telemetry ---------------- *)

\* Lines and readings of the long run: off and 200 mA; readings of 0 mA, of
\* the target, of 100 mA above it and of more than the limit.
TelemetryLines == { <<"0">>, <<"2", "0", "0">> }

TelemetryReadings == { 0, 200 * Scale, 300 * Scale, 1450 * Scale }

TelemetryMillis == MillisUpTo(TelemetryClockStep, TelemetryMaxNow)

TelemetryCommand == CommandFrom(TelemetryLines)

TelemetryTick == ControlTickWith(TelemetryReadings)

TelemetryNext ==
    \/ TelemetryMillis
    \/ Setup
    \/ Halted
    \/ NoCommand
    \/ TelemetryCommand
    \/ NoTick
    \/ IdleTick
    \/ TelemetryTick

SpecTelemetry == Init /\ [][TelemetryNext]_vars

(* ---------------- a simulated sensor, for the regulation ---------------- *)

\* The simulated sensor reads measured = f(currentDacValue) with
\* f(d) = plant * d model units: 0.5, 1, 2, 10 and 20 mA per DAC step.
PlantGains == { 1, 2, 4, 20, 40 }

PlantCurrent(gain, dac) == gain * dac

\* The targets sent to the controller: 5, 100, 200, 500 and 1400 mA.
ConvergeLines ==
    { <<"5", "x">>, <<" ", "1", "0", "0", " ">>, <<"2", "0", "0">>,
      <<"5", "0", "0">>, <<"1", "4", "0", "0">> }

InitConverge ==
    /\ pc = "setup"
    /\ targetCurrent_mA = 0
    /\ currentDacValue = 0
    /\ lastControlTime = U32(0)
    /\ headerPrinted = FALSE
    /\ lineCount = 0
    /\ now = U32(0)
    /\ dacOut = 0
    /\ beginOk = "not called"
    /\ calResult = -1
    /\ input = NoInput
    /\ currentCurrent = NoReading
    /\ targetBefore = 0
    /\ dacBefore = 0
    /\ wrote = FALSE
    /\ branch = "init"
    /\ serialOut = <<>>
    /\ cadence = [ headers |-> 0, sinceHeader |-> 0, gap |-> 0 ]
    /\ plant \in PlantGains
    /\ timing = [ uptime |-> 0, sinceTick |-> 0 ]

\* The clock advances until a control tick is due: an iteration of loop()
\* takes less than the control interval.
ConvergeMillis ==
    /\ ~IntervalElapsed(now, lastControlTime)
    /\ MillisUpTo(CONTROL_INTERVAL, ConvergeMaxNow)

\* The target is sent once, before the first control tick, and then held.
ConvergeCommand ==
    /\ targetCurrent_mA = 0
    /\ lastControlTime = U32(0)
    /\ CommandFrom(ConvergeLines)

ConvergeTick == ControlTickWith({ PlantCurrent(plant, currentDacValue) })

ConvergeLoop ==
    \/ NoCommand
    \/ ConvergeCommand
    \/ NoTick
    \/ IdleTick
    \/ ConvergeTick

ConvergeNext ==
    \/ ConvergeMillis
    \/ Setup
    \/ Halted
    \/ ConvergeLoop

\* loop() is called again and again, and the clock runs.
SpecConverge ==
    /\ InitConverge
    /\ [][ConvergeNext]_vars
    /\ WF_vars(ConvergeMillis)
    /\ WF_vars(Setup)
    /\ WF_vars(ConvergeLoop)

(* ---------------- the loop while millis() wraps around 2^32 ---------------- *)

ClockLines == { <<"0">>, <<"2", "0", "0">> }

\* 200 mA and 1450 mA
ClockReadings == { 200 * Scale, 1450 * Scale }

\* 49.7 days after start-up with no command received so far: an idle control
\* tick has just run, ClockStartsBeforeWrap ms before millis() wraps.
InitClock ==
    /\ pc = "cmd"
    /\ targetCurrent_mA = 0
    /\ currentDacValue = 0
    /\ lastControlTime = [ hi |-> Word - 1, lo |-> Word - ClockStartsBeforeWrap ]
    /\ headerPrinted = FALSE
    /\ lineCount = 0
    /\ now = [ hi |-> Word - 1, lo |-> Word - ClockStartsBeforeWrap ]
    /\ dacOut = 0
    /\ beginOk = "true"
    /\ calResult = INA226_ERR_NONE
    /\ input = NoInput
    /\ currentCurrent = NoReading
    /\ targetBefore = 0
    /\ dacBefore = 0
    /\ wrote = FALSE
    /\ branch = "idle"
    /\ serialOut = <<>>
    /\ cadence = [ headers |-> 0, sinceHeader |-> 0, gap |-> 0 ]
    /\ plant = 0
    /\ timing = [ uptime |-> 0, sinceTick |-> 0 ]

ClockMillis ==
    \/ MillisUpTo(ClockFineStep, ClockMaxNow)
    \/ MillisUpTo(ClockCoarseStep, ClockMaxNow)

ClockCommand == CommandFrom(ClockLines)

ClockTick == ControlTickWith(ClockReadings)

ClockNext ==
    \/ ClockMillis
    \/ NoCommand
    \/ ClockCommand
    \/ NoTick
    \/ IdleTick
    \/ ClockTick

SpecClock == InitClock /\ [][ClockNext]_vars

(* ---------------- the controller of INA226_Speed_Analysis.ino ---------------- *)
(* The second sketch has its own globals of the same names; its steps use     *)
(* targetCurrent_mA, currentDacValue, dacOut and the history variables, and   *)
(* leave the clock and the telemetry counters of the first sketch alone.      *)

maxCurrent_mA == 1000 * Scale
dacMin == 0
dacMax == 4095

SpeedLines ==
    { <<"0">>,
      <<"2", "0", "0">>,
      <<"1", "0", "0", "0">>,
      <<"1", "0", "0", "0", ".", "5">> }

\* Values ina226.getCurrent_mA() can return: 0, 200 and 2000 mA.
SpeedReadings == { 0, 200 * Scale, 2000 * Scale }

\* newTarget >= 0 && newTarget <= maxCurrent_mA
SpeedValidTarget(newTarget) == newTarget >= 0 /\ newTarget <= maxCurrent_mA

\* loop(), serial part: the effect of a parsed line.
SpeedHandleCommand(newTarget, target, dac, out) ==
    IF SpeedValidTarget(newTarget)
    THEN IF newTarget = 0
         THEN [ target |-> newTarget, dac |-> 0, out |-> 0, wrote |-> TRUE,
                branch |-> "off", printed |-> <<>> ]
         ELSE [ target |-> newTarget, dac |-> dac, out |-> out, wrote |-> FALSE,
                branch |-> "set", printed |-> << "Target current set to" >> ]
    ELSE [ target |-> target, dac |-> dac, out |-> out, wrote |-> FALSE,
           branch |-> "ignored", printed |-> <<>> ]

\* Variant: the timeout is reported and the iteration goes on.
SpeedControlIgnoresTimeout(ready, reading, target, dac, out) ==
    LET stepped == Constrain(dac + (IF reading < target THEN 1 ELSE -1),
                             dacMin, dacMax)
        warning == IF ready THEN <<>> ELSE << "Timeout waiting for conversion!" >>
    IN  IF target > 0
        THEN [ dac |-> stepped, out |-> stepped, wrote |-> TRUE, measured |-> TRUE,
               branch |-> IF ready THEN "step" ELSE "timeout",
               printed |-> warning \o << "DAC Value", "Current (mA)" >> ]
        ELSE [ dac |-> dac, out |-> 0, wrote |-> TRUE, measured |-> FALSE,
               branch |-> IF ready THEN "hold_off" ELSE "timeout",
               printed |-> warning ]

\* loop() after the serial part: the wait for the conversion, then one step
\* of 1 toward the target, or 0 written when there is no target.
SpeedControl(ready, reading, target, dac, out) ==
    IF ~ready
    THEN [ dac |-> dac, out |-> out, wrote |-> FALSE, measured |-> FALSE,
           branch |-> "timeout",
           printed |-> << "Timeout waiting for conversion!" >> ]
    ELSE IF target > 0
    THEN LET stepped == Constrain(dac + (IF reading < target THEN 1 ELSE -1),
                                  dacMin, dacMax)
         IN  [ dac |-> stepped, out |-> stepped, wrote |-> TRUE, measured |-> TRUE,
               branch |-> "step",
               printed |-> << "DAC Value", "Current (mA)" >> ]
    ELSE [ dac |-> dac, out |-> 0, wrote |-> TRUE, measured |-> FALSE,
           branch |-> "hold_off", printed |-> <<>> ]

\* setup(): a failed initialisation is reported and loop() runs all the same.
SpeedSetup ==
    /\ pc = "setup"
    /\ \E initialized \in BOOLEAN :
         /\ beginOk' = IF initialized THEN "true" ELSE "false"
         /\ serialOut' = IF initialized
                         THEN << "INA226 initialized successfully!" >>
                         ELSE << "ERROR: Failed to initialize INA226!" >>
    /\ pc' = "cmd"
    /\ branch' = "ready"
    /\ UNCHANGED << targetCurrent_mA, currentDacValue, lastControlTime, headerPrinted,
                    lineCount, now, dacOut, calResult, input, currentCurrent,
                    targetBefore, dacBefore, wrote, cadence, plant, timing >>

\* loop(), lines 198-220, when no line is waiting on the serial port
SpeedNoCommand ==
    /\ pc = "cmd"
    /\ pc' = "ctrl"
    /\ targetBefore' = targetCurrent_mA
    /\ dacBefore' = currentDacValue
    /\ input' = NoInput
    /\ wrote' = FALSE
    /\ branch' = "no_serial"
    /\ serialOut' = <<>>
    /\ currentCurrent' = NoReading
    /\ UNCHANGED << targetCurrent_mA, currentDacValue, lastControlTime, headerPrinted,
                    lineCount, now, dacOut, beginOk, calResult, cadence, plant,
                    timing >>

\* loop(), lines 198-220, when a line is waiting on the serial port
SpeedCommand ==
    /\ pc = "cmd"
    /\ \E line \in SpeedLines :
         LET trimmed == Trim(line)
             r       == SpeedHandleCommand(ToFloat(trimmed), targetCurrent_mA,
                                           currentDacValue, dacOut)
         IN  /\ input' = trimmed
             /\ targetCurrent_mA' = r.target
             /\ currentDacValue' = r.dac
             /\ dacOut' = r.out
             /\ wrote' = r.wrote
             /\ branch' = r.branch
             /\ serialOut' = r.printed
    /\ pc' = "ctrl"
    /\ targetBefore' = targetCurrent_mA
    /\ dacBefore' = currentDacValue
    /\ currentCurrent' = NoReading
    /\ UNCHANGED << lastControlTime, headerPrinted, lineCount, now, beginOk,
                    calResult, cadence, plant, timing >>

\* loop(), lines 222-256: waitConversionReady() returns ready or not, and the
\* sensor returns one of SpeedReadings if it is read.
SpeedControlPart ==
    /\ pc = "ctrl"
    /\ \E ready \in BOOLEAN, reading \in SpeedReadings :
         LET r == SpeedControl(ready, reading, targetCurrent_mA, currentDacValue,
                               dacOut)
         IN  /\ currentCurrent' = IF r.measured THEN reading ELSE NoReading
             /\ currentDacValue' = r.dac
             /\ dacOut' = r.out
             /\ wrote' = r.wrote
             /\ branch' = r.branch
             /\ serialOut' = r.printed
    /\ pc' = "cmd"
    /\ targetBefore' = targetCurrent_mA
    /\ dacBefore' = currentDacValue
    /\ input' = NoInput
    /\ UNCHANGED << targetCurrent_mA, lastControlTime, headerPrinted, lineCount,
                    now, beginOk, calResult, cadence, plant, timing >>

SpeedNext ==
    \/ SpeedSetup
    \/ SpeedNoCommand
    \/ SpeedCommand
    \/ SpeedControlPart

SpecSpeed == Init /\ [][SpeedNext]_vars

(* ---------------- a sensor that reads at least 10 mA below the target ---------------- *)

\* 0, 0.5 and 10 mA per DAC step
WindupGains == { 0, 1, 20 }

WindupLines ==
    { <<"1", "0">>, <<"2", "0", "0">>, <<"1", "4", "0", "0">> }

\* The simulated reading: gain * dac, but never more than target - 10 mA.
WindupCurrent(gain, dac, target) ==
    LET free  == PlantCurrent(gain, dac)
        limit == target - 10 * Scale
    IN  IF free < limit THEN free ELSE limit

InitWindup ==
    /\ pc = "setup"
    /\ targetCurrent_mA = 0
    /\ currentDacValue = 0
    /\ lastControlTime = U32(0)
    /\ headerPrinted = FALSE
    /\ lineCount = 0
    /\ now = U32(0)
    /\ dacOut = 0
    /\ beginOk = "not called"
    /\ calResult = -1
    /\ input = NoInput
    /\ currentCurrent = NoReading
    /\ targetBefore = 0
    /\ dacBefore = 0
    /\ wrote = FALSE
    /\ branch = "init"
    /\ serialOut = <<>>
    /\ cadence = [ headers |-> 0, sinceHeader |-> 0, gap |-> 0 ]
    /\ plant \in WindupGains
    /\ timing = [ uptime |-> 0, sinceTick |-> 0 ]

\* The clock advances until a control tick is due.
WindupMillis ==
    /\ ~IntervalElapsed(now, lastControlTime)
    /\ MillisUpTo(CONTROL_INTERVAL, WindupMaxNow)

\* The target is sent once, before the first control tick, and then held.
WindupCommand ==
    /\ targetCurrent_mA = 0
    /\ lastControlTime = U32(0)
    /\ CommandFrom(WindupLines)

WindupTick ==
    ControlTickWith({ WindupCurrent(plant, currentDacValue, targetCurrent_mA) })

WindupLoop ==
    \/ NoCommand
    \/ WindupCommand
    \/ NoTick
    \/ IdleTick
    \/ WindupTick

WindupNext ==
    \/ WindupMillis
    \/ Setup
    \/ Halted
    \/ WindupLoop

\* loop() is called again and again, and the clock runs.
SpecWindup ==
    /\ InitWindup
    /\ [][WindupNext]_vars
    /\ WF_vars(WindupMillis)
    /\ WF_vars(Setup)
    /\ WF_vars(WindupLoop)

(* ---------------- properties ---------------- *)

\* The last step was a control tick that took a measurement.
Measured == currentCurrent # NoReading

\* The last step read a line from the serial port.
LineRead == input # NoInput

\* C1: a control tick whose measurement is strictly above MAX_CURRENT_MA
\* (1400 mA) ends with targetCurrent_mA = 0, currentDacValue = 0 and 0 written
\* to the DAC, whatever the target and the DAC value were before; the
\* proportional step and the telemetry of that tick are skipped.
C1_SafetyTrip ==
    (Measured /\ currentCurrent > 1400 * Scale) =>
        /\ targetCurrent_mA = 0
        /\ currentDacValue = 0
        /\ wrote
        /\ dacOut = 0
        /\ serialOut = << "SAFETY SHUTDOWN" >>

\* A tick tripped with a target of 500 mA and a DAC value above 0.
C1_Witness ==
    /\ Measured
    /\ currentCurrent = 1450 * Scale
    /\ targetBefore = 500 * Scale
    /\ dacBefore > 0
    /\ targetCurrent_mA = 0
    /\ currentDacValue = 0

\* C2: every value written to the DAC pin is within [DAC_MIN, DAC_MAX] =
\* [0, 1023], and so is currentDacValue after every step of the loop.
C2_ClampInvariant ==
    /\ 0 <= dacOut /\ dacOut <= 1023
    /\ 0 <= currentDacValue /\ currentDacValue <= 1023

\* A tick whose step would have left the range at the top was clamped to 1023.
C2_Witness ==
    /\ Measured
    /\ wrote
    /\ dacBefore + (targetCurrent_mA - currentCurrent) \div (10 * Scale) > 1023
    /\ dacOut = 1023

\* C3: a line that is not a number is rejected: targetCurrent_mA,
\* currentDacValue and the DAC output are unchanged, nothing is written to the
\* DAC and the rejection message is printed.
C3_MalformedRejected ==
    (LineRead /\ ~IsNumeric(input)) =>
        /\ targetCurrent_mA = targetBefore
        /\ currentDacValue = dacBefore
        /\ ~wrote
        /\ serialOut = << "Invalid current value" >>

\* C4: a numeric line with value v sets targetCurrent_mA to v if and only if
\* 0 <= v <= MAX_CURRENT_MA (1400 mA, both ends included); otherwise it is
\* rejected with a message and target, DAC value and DAC output are unchanged.
C4_RangeValidation ==
    (LineRead /\ IsNumeric(input)) =>
        LET v == ToFloat(input) IN
            IF 0 <= v /\ v <= 1400 * Scale
            THEN /\ targetCurrent_mA = v
                 /\ serialOut # << "Invalid current value" >>
            ELSE /\ targetCurrent_mA = targetBefore
                 /\ currentDacValue = dacBefore
                 /\ ~wrote
                 /\ serialOut = << "Invalid current value" >>

\* The line "1400" was accepted while another target was set.
C4_Witness ==
    /\ input = << "1", "4", "0", "0" >>
    /\ targetBefore = 200 * Scale
    /\ targetCurrent_mA = 1400 * Scale

\* C5: in a control tick that does not trip, an error of magnitude below
\* 10 mA (|error * Kp| < MIN_ADJUSTMENT) leaves currentDacValue unchanged and
\* writes nothing to the DAC.
C5_DeadBand ==
    ( /\ Measured
      /\ currentCurrent <= 1400 * Scale
      /\ Abs(targetCurrent_mA - currentCurrent) < 10 * Scale ) =>
        /\ currentDacValue = dacBefore
        /\ ~wrote

\* Target 100 mA, measured 99.5 mA, with the DAC above 0: nothing changed.
C5_Witness ==
    /\ Measured
    /\ targetCurrent_mA = 100 * Scale
    /\ currentCurrent = 199
    /\ dacBefore > 0
    /\ currentDacValue = dacBefore
    /\ ~wrote

\* C integer conversion of error * Kp, stated on its own: the magnitude is
\* divided and the sign restored.
TowardZeroTenth(error) ==
    IF error >= 0 THEN error \div (10 * Scale) ELSE -((-error) \div (10 * Scale))

ClampToDac(x) == IF x < 0 THEN 0 ELSE IF x > 1023 THEN 1023 ELSE x

\* C6: in a control tick that does not trip, with adj = (target - measured) *
\* Kp truncated toward zero, |adj| >= MIN_ADJUSTMENT (1, inclusive) makes
\* currentDacValue = clamp(old + adj, 0, 1023) and writes that value to the
\* DAC; target 500 and measured 300 give +20, an error of -19 mA gives -1.
C6_ProportionalStep ==
    (Measured /\ currentCurrent <= 1400 * Scale) =>
        LET adj == TowardZeroTenth(targetCurrent_mA - currentCurrent) IN
            /\ Abs(adj) >= 1 =>
                 /\ currentDacValue = ClampToDac(dacBefore + adj)
                 /\ wrote
                 /\ dacOut = currentDacValue
            /\ (targetCurrent_mA = 500 * Scale /\ currentCurrent = 300 * Scale) =>
                 currentDacValue = ClampToDac(dacBefore + 20)
            /\ (targetCurrent_mA - currentCurrent = -19 * Scale) =>
                 currentDacValue = ClampToDac(dacBefore - 1)

\* Target 500 mA, measured 519 mA: the DAC went down by exactly 1.
C6_Witness ==
    /\ Measured
    /\ targetCurrent_mA = 500 * Scale
    /\ currentCurrent = 519 * Scale
    /\ dacBefore = 20
    /\ currentDacValue = 19
    /\ dacOut = 19

\* C7: an accepted command with value 0 sets targetCurrent_mA = 0 and
\* currentDacValue = 0 and writes 0 to the DAC within the serial part of the
\* same loop iteration, before the control part runs and whether or not the
\* control interval has elapsed.
C7_ImmediateOff ==
    (LineRead /\ IsNumeric(input) /\ ToFloat(input) = 0) =>
        /\ pc = "ctrl"
        /\ targetCurrent_mA = 0
        /\ currentDacValue = 0
        /\ wrote
        /\ dacOut = 0

\* "0" arrived with the DAC above 0 and the control interval not elapsed.
C7_Witness ==
    /\ input = << "0" >>
    /\ targetBefore > 0
    /\ dacBefore > 0
    /\ ~IntervalElapsed(now, lastControlTime)
    /\ currentDacValue = 0
    /\ dacOut = 0

\* C8: a command 0 received when targetCurrent_mA is already 0 leaves
\* targetCurrent_mA = 0 and currentDacValue = 0, the same state as one such
\* command, and with targetCurrent_mA = 0 neither the command nor a control
\* part takes a measurement or changes currentDacValue.
C8_IdempotentOff ==
    /\ (LineRead /\ IsNumeric(input) /\ ToFloat(input) = 0 /\ targetBefore = 0) =>
         /\ targetCurrent_mA = 0
         /\ currentDacValue = 0
         /\ dacBefore = 0
         /\ dacOut = 0
         /\ ~Measured
    /\ (pc = "cmd" /\ branch \notin { "init", "ready" } /\ targetBefore = 0) =>
         /\ targetCurrent_mA = 0
         /\ currentDacValue = 0
         /\ dacBefore = 0
         /\ dacOut = 0
         /\ ~wrote
         /\ ~Measured

\* "0" arrived with no target set, after a control tick had already run idle.
C8_Witness ==
    /\ input = << "0" >>
    /\ targetBefore = 0
    /\ lastControlTime.lo >= CONTROL_INTERVAL
    /\ lineCount = 0
    /\ targetCurrent_mA = 0
    /\ currentDacValue = 0

\* C9: 0 <= targetCurrent_mA <= MAX_CURRENT_MA (1400 mA) in every state.
C9_TargetRange == 0 <= targetCurrent_mA /\ targetCurrent_mA <= 1400 * Scale

\* An out-of-range line arrived while a target was set, and the target stayed.
C9_Witness ==
    /\ input = << "-", "0", ".", "5" >>
    /\ targetBefore = 1400 * Scale
    /\ targetCurrent_mA = 1400 * Scale

\* C10: when INA.begin() fails or the calibration returns an error, setup()
\* prints the error and halts: no command is read, no control tick runs, the
\* DAC is never written and the start is not retried.
C10_FatalStartup ==
    (beginOk = "false" \/ (beginOk = "true" /\ calResult # 0)) =>
        /\ pc = "halted"
        /\ serialOut \in { << "banner", "Could not connect to INA226" >>,
                           << "banner", "Calibration failed" >> }
        /\ ~LineRead
        /\ ~Measured
        /\ lastControlTime = U32(0)
        /\ lineCount = 0
        /\ ~wrote
        /\ dacOut = 0
        /\ targetCurrent_mA = 0
        /\ currentDacValue = 0

\* The calibration failed and the sketch is still halted 100 ms later.
C10_Witness ==
    /\ beginOk = "true"
    /\ calResult = INA226_ERR_SHUNTVOLTAGE_HIGH
    /\ pc = "halted"
    /\ now.lo >= CONTROL_INTERVAL

\* C11: the header line is printed immediately before the first data line,
\* and from then on exactly 10 data lines lie between two consecutive header
\* lines, whatever idle periods, target changes and safety shutdowns occur
\* between the data lines.
C11_HeaderCadence ==
    /\ cadence.headers = 0 => cadence.sinceHeader = 0
    /\ cadence.headers = 1 => cadence.gap = 0
    /\ cadence.headers > 1 => cadence.gap = 10
    /\ cadence.sinceHeader <= 10
    /\ serialOut = << "header", "data" >> => cadence.sinceHeader = 1
    /\ serialOut = << "data" >> => cadence.sinceHeader \in 2..10

\* The third header was printed after 10 more data lines, in a run in which
\* at least one control tick printed no data line.
C11_Witness ==
    /\ serialOut = << "header", "data" >>
    /\ cadence.headers = 3
    /\ cadence.gap = 10
    /\ lastControlTime.lo > 21 * CONTROL_INTERVAL

\* The controller is at rest within one adjustment step of the target: the
\* simulated reading is less than 10 mA from the target and the last step
\* left currentDacValue alone.
Settled ==
    /\ Abs(PlantCurrent(plant, currentDacValue) - targetCurrent_mA) < 10 * Scale
    /\ currentDacValue = dacBefore

\* The sensor rises by at most 10 mA (MIN_ADJUSTMENT / Kp) per DAC step and
\* reaches the target within the range of the DAC.
GentleAndReachable ==
    /\ plant <= 10 * Scale
    /\ targetCurrent_mA <= PlantCurrent(plant, 1023)

\* C12 (as amended): with a target t held constant from idle, and a simulated
\* sensor measured = f(currentDacValue) with f(0) <= t <= f(DAC_MAX) and f
\* increasing by more than 0 and at most 10 mA per DAC step, after finitely
\* many control ticks currentDacValue stops changing and |measured - t| stays
\* below 10 mA.
C12_Convergence == <>[](GentleAndReachable => Settled)

\* 1 mA per DAC step, target 500 mA: at rest within 10 mA below the target.
C12_Witness ==
    /\ plant = 1 * Scale
    /\ targetCurrent_mA = 500 * Scale
    /\ Measured
    /\ currentDacValue > 490
    /\ Settled

\* C12 (as claimed): for every valid target and every increasing f, after
\* finitely many control ticks currentDacValue stops changing and
\* |measured - t| stays below 10 mA.
C12_AnyIncreasingSensor == <>[]Settled

\* The last step was a control tick (idle or regulating).
Ticked == branch \in { "idle", "shutdown", "adjust", "deadband" }

\* C13: whenever targetCurrent_mA = 0, currentDacValue = 0 and the value last
\* written to the DAC is 0; a control tick that starts with no target takes
\* no measurement, writes nothing and leaves currentDacValue alone.
C13_IdleOutputZero ==
    /\ targetCurrent_mA = 0 => (currentDacValue = 0 /\ dacOut = 0)
    /\ (Ticked /\ targetBefore = 0) =>
         /\ ~Measured
         /\ ~wrote
         /\ currentDacValue = dacBefore
         /\ serialOut = <<>>

\* An idle tick ran after the load had been regulated and then turned off.
C13_Witness ==
    /\ branch = "idle"
    /\ lineCount > 0
    /\ targetCurrent_mA = 0
    /\ currentDacValue = 0
    /\ dacOut = 0
    /\ lastControlTime = now

\* C14: targetCurrent_mA goes from a positive value to 0 only by a command
\* that is the number 0 or by a safety trip; a regulating tick whose
\* measurement is at most MAX_CURRENT_MA (1400 mA, the limit included) leaves
\* targetCurrent_mA unchanged and goes on to the proportional step.
C14_TwoWaysOut ==
    /\ (targetBefore > 0 /\ targetCurrent_mA = 0) =>
         \/ LineRead /\ IsNumeric(input) /\ ToFloat(input) = 0
         \/ Measured /\ currentCurrent > 1400 * Scale
    /\ (Measured /\ currentCurrent <= 1400 * Scale) =>
         /\ targetCurrent_mA = targetBefore
         /\ branch \in { "adjust", "deadband" }

\* C17: the value last written to the DAC equals currentDacValue (the
\* power-on output taken as 0), and a step that changes currentDacValue
\* writes the new value to the DAC.
C17_ActuatorMirrorsState ==
    /\ dacOut = currentDacValue
    /\ currentDacValue # dacBefore => wrote

\* A control tick moved the DAC to a new nonzero value and wrote it.
C17_Witness ==
    /\ Measured
    /\ wrote
    /\ currentDacValue > 0
    /\ currentDacValue # dacBefore
    /\ dacOut = currentDacValue

\* The iteration reads a line whose value v is accepted with 0 < v <= 1400 mA.
AcceptsNonzeroTarget ==
    /\ pc = "cmd"
    /\ pc' = "ctrl"
    /\ input' # NoInput
    /\ 0 < ToFloat(input')
    /\ ToFloat(input') <= 1400 * Scale

\* C18: accepting a command with value v, 0 < v <= MAX_CURRENT_MA, sets
\* targetCurrent_mA to v and changes nothing else: currentDacValue, the DAC
\* output, lastControlTime, headerPrinted and lineCount keep their values.
C18_PureSetPointChange ==
    [][AcceptsNonzeroTarget =>
         /\ targetCurrent_mA' = ToFloat(input')
         /\ UNCHANGED << currentDacValue, dacOut, lastControlTime,
                         headerPrinted, lineCount >>]_vars

\* "200" arrived while the load was regulated toward 500 mA with the DAC
\* above 0, and the DAC value was kept.
C18_Witness ==
    /\ input = << "2", "0", "0" >>
    /\ targetBefore = 500 * Scale
    /\ targetCurrent_mA = 200 * Scale
    /\ dacBefore > 0
    /\ currentDacValue = dacBefore
    /\ dacOut = dacBefore
    /\ lineCount > 0

\* C20: with a target t, 0 < t < 10 mA, a control tick whose measurement is
\* at least 0 never increases currentDacValue; if currentDacValue was 0 it
\* stays 0 and the DAC output stays 0.
C20_BelowDeadBand ==
    (Measured /\ 0 < targetBefore /\ targetBefore < 10 * Scale
              /\ currentCurrent >= 0) =>
         /\ currentDacValue <= dacBefore
         /\ dacBefore = 0 => (currentDacValue = 0 /\ dacOut = 0)

\* A tick with target 9.5 mA, DAC value 0 and a reading of 0 mA left the
\* DAC at 0.
C20_Witness ==
    /\ Measured
    /\ targetBefore = 19
    /\ currentCurrent = 0
    /\ dacBefore = 0
    /\ currentDacValue = 0
    /\ dacOut = 0
    /\ branch = "deadband"

\* The step is the control part of an iteration and runs the tick body.
TickRuns ==
    /\ pc = "ctrl"
    /\ pc' = "cmd"
    /\ branch' \in { "idle", "shutdown", "adjust", "deadband" }

\* C15: the tick body runs only when now - lastControlTime, computed modulo
\* 2^32, is at least CONTROL_INTERVAL (100 ms), and it sets lastControlTime
\* to the current time; two consecutive ticks are at least 100 ms apart, also
\* across the wrap of millis(); lastControlTime changes only in the control
\* part of an iteration, once, and a control part that comes earlier takes no
\* measurement and changes nothing.
C15_TickCadence ==
    [][/\ TickRuns =>
            /\ U32AtLeast(U32Sub(now, lastControlTime), 100)
            /\ lastControlTime' = now
            /\ now' = now
            /\ timing.sinceTick >= 100
       /\ lastControlTime' # lastControlTime => TickRuns
       /\ (pc = "ctrl" /\ pc' = "cmd" /\ timing.sinceTick < 100) =>
            /\ ~TickRuns
            /\ currentCurrent' = NoReading
            /\ UNCHANGED << lastControlTime, targetCurrent_mA, currentDacValue,
                            dacOut, lineCount >>]_vars

\* A regulating tick ran less than 100 ms after millis() wrapped; the tick
\* before it ran before the wrap.
C15_Witness ==
    /\ Measured
    /\ lastControlTime = now
    /\ now.hi = 0
    /\ now.lo < CONTROL_INTERVAL
    /\ timing.sinceTick = 0
    /\ timing.uptime > ClockStartsBeforeWrap
    /\ timing.uptime < ClockStartsBeforeWrap + CONTROL_INTERVAL

\* C16: in the speed-analysis sketch, an iteration in which
\* waitConversionReady() times out prints the timeout message and returns:
\* it takes no measurement, leaves currentDacValue and targetCurrent_mA alone
\* and writes nothing to the DAC; loop() has returned, so the next iteration
\* starts again at the serial part.
C16_BoundedWait ==
    branch = "timeout" =>
        /\ serialOut = << "Timeout waiting for conversion!" >>
        /\ ~Measured
        /\ ~wrote
        /\ currentDacValue = dacBefore
        /\ dacOut = dacBefore
        /\ targetCurrent_mA = targetBefore
        /\ pc = "cmd"

\* The wait timed out while the load was regulated toward 200 mA, with the
\* DAC above 0.
C16_Witness ==
    /\ branch = "timeout"
    /\ targetCurrent_mA = 200 * Scale
    /\ currentDacValue > 1
    /\ dacOut = currentDacValue

\* C19: regulating toward a constant target t >= 10 mA with every measurement
\* at most t - 10 mA, currentDacValue never decreases, no safety shutdown
\* occurs, and after finitely many control ticks currentDacValue is 1023 and
\* stays 1023.
C19_WindUp ==
    /\ [][targetCurrent_mA > 0 => currentDacValue' >= currentDacValue]_vars
    /\ [](branch # "shutdown")
    /\ <>[](targetCurrent_mA > 0 => currentDacValue = 1023)

\* The target is 10 mA, the sensor reads 0 and the DAC, stepped by 1 per
\* tick, has reached 1023 and was held there by the last tick.
C19_Witness ==
    /\ targetCurrent_mA = 10 * Scale
    /\ Measured
    /\ currentCurrent = 0
    /\ dacBefore = 1023
    /\ currentDacValue = 1023
    /\ lineCount > 1023

====
